---- MODULE Spec2Model ----
(***************************************************************************)
(* Model of the per-sample audio dispatch of c74_min_operator_sample.h:    *)
(* sample_operator<K,M>, the two min_performer<T>::perform                 *)
(* specializations, callable_samples and perform_copy_output.              *)
(*                                                                         *)
(* Channels and frames are indexed from 0 as in the source.  A channel     *)
(* buffer is an array identifier into mem; two channels alias             *)
(* when they hold the same identifier.  Samples are integers: the layer    *)
(* only copies them, and calculate() is integer arithmetic here.           *)
(***************************************************************************)
EXTENDS Integers, Sequences, FiniteSets

\* ---------------------------------------------------------------- bounds
MaxFrames == 2      \* largest sampleframes the host passes
MaxIn == 2          \* largest input_count of a unit
MaxOut == 2         \* largest output_count of a unit

\* ------------------------------------------------------ host environment
\* What the host may hand to perform(): the amplitude of the ramp g*(j+1)
\* it left in a buffer, and how the output buffers alias the input buffers.
Gains == {1, 10}
Layouts == {"separate", "inplace", "crossed"}
\* calculate() bodies a unit may have (see calculate below).
Kinds == {"sum", "asym"}
\* What a default-initialized samples<count> may hold before set().
Indeterminate == {-7, 7}

Chans(n) == 0 .. (n - 1)
Frames == 0 .. (MaxFrames - 1)
Arrays(K, M) == 0 .. (K + M - 1)

VARIABLES
    inputcount,     \* sample_operator<input_count, _>::inputcount()
    outputcount,    \* sample_operator<_, output_count>::outputcount()
    shape,          \* static return type of T::calculate: "scalar" | "sequence"
    kind,           \* which calculate() body the unit has
    mem,            \* array id -> frame -> sample : the host's buffers
    in_chans,       \* perform() argument: input channel -> array id
    out_chans,      \* perform() argument: output channel -> array id
    sampleframes,   \* perform() argument
    pc,             \* position inside perform(), "idle" outside
    path,           \* which min_performer specialization is running
    i,              \* frame loop counter
    chan,           \* channel loop counter
    in_samps,       \* 1x1 path: in_chans[0]
    out_samps,      \* 1x1 path: out_chans[0]
    insamp,         \* 1x1 path: local `in`
    ins,            \* generic path: callable_samples::data
    out,            \* local `out`: the value returned from calculate()
    snap,           \* history: mem when perform() was entered
    log,            \* history: sample reads, calculate() calls, sample writes
    prev,           \* history: mem when the previous perform() returned
    replay          \* history: this call repeats the previous block

vars == << inputcount, outputcount, shape, kind, mem, in_chans, out_chans,
           sampleframes, pc, path, i, chan, in_samps, out_samps, insamp,
           ins, out, snap, log, prev, replay >>

unitVars == << inputcount, outputcount, shape, kind >>
callVars == << in_chans, out_chans, sampleframes, path, snap, prev, replay >>

\* --------------------------------------------------- the compute unit
\* The return type the doc comment of sample_operator requires of
\* calculate(): samples<output_count>; a bare sample is what the 1x1
\* performer assigns and what the scalar perform_copy_output overload takes.
ReturnShapes(K, M) ==
    IF K = 1 /\ M = 1 THEN {"scalar"}
    ELSE IF M = 1 THEN {"scalar", "sequence"}
    ELSE {"sequence"}

Weight(kd, k) ==
    IF kd = "sum" THEN 1
    ELSE IF k % 2 = 0 THEN k + 2 ELSE -(k + 2)

RECURSIVE WeightedSum(_, _, _)
WeightedSum(kd, args, n) ==
    IF n = 0 THEN 0
    ELSE Weight(kd, n - 1) * args[n] + WeightedSum(kd, args, n - 1)

\* T::calculate(a0, ..., aK-1): args is the sequence of positional
\* arguments.  "sum" is a0 + a1 + ..., "asym" is 2*a0 - 3*a1 + 4*a2 ...
\* A samples<M> result carries 100*c more in slot c.
calculate(kd, shp, M, args) ==
    LET base == WeightedSum(kd, args, Len(args))
    IN  IF shp = "scalar" THEN [c \in {0} |-> base]
        ELSE [c \in Chans(M) |-> base + 100 * c]

\* ----------------------------------------------------- the dispatcher
\* std::is_base_of<sample_operator<1,1>, T>
IsBaseOf11(K, M) == K = 1 /\ M = 1

\* enable_if of the 1x1 specialization
FastEnabled(K, M) == IsBaseOf11(K, M)

GenericEnabled_NoExclusion(K, M) == TRUE

\* enable_if of the generic specialization: every T in the model derives
\* from sample_operator_base
GenericEnabled(K, M) == TRUE /\ ~IsBaseOf11(K, M)

gen_seq_Reversed(N, Is) == [p \in 1 .. N |-> N - p]

\* detail::gen_seq<N, Is...> : gen_seq<N-1, N-1, Is...>; gen_seq<0, Is...> : seq<Is...>
RECURSIVE gen_seq(_, _)
gen_seq(N, Is) ==
    IF N = 0 THEN Is ELSE gen_seq(N - 1, <<N - 1>> \o Is)

\* callable_samples::set
set(data, index, value) == [data EXCEPT ![index] = value]

\* callable_samples::call: calculate(data[Is]...)
call(kd, shp, M, data, count) ==
    LET Is == gen_seq(count, <<>>)
    IN  calculate(kd, shp, M, [p \in 1 .. count |-> data[Is[p]]])

\* overload resolution of perform_copy_output on the returned type
Overload(shp) == IF shp = "scalar" THEN "scalar" ELSE "sequence"

FrameLoopCond_Inclusive(idx, frames) == idx <= frames /\ idx < MaxFrames

\* i < sampleframes
FrameLoopCond(idx, frames) == idx < frames

Event(op, c, j, via) == [op |-> op, chan |-> c, frame |-> j, via |-> via]

\* ------------------------------------------------------------ the host
Signal(g, j) == g * (j + 1)

InChans(K, M, lay) == [c \in Chans(K) |-> c]

OutChans(K, M, lay) ==
    [c \in Chans(M) |->
        IF lay = "separate" \/ c >= K THEN K + c
        ELSE IF lay = "inplace" THEN c
        ELSE (c + 1) % K]

Init ==
    /\ inputcount \in 0 .. MaxIn
    /\ outputcount \in 0 .. MaxOut
    /\ shape \in ReturnShapes(inputcount, outputcount)
    /\ kind \in Kinds
    /\ mem = [a \in Arrays(inputcount, outputcount) |-> [j \in Frames |-> 0]]
    /\ in_chans = InChans(inputcount, outputcount, "separate")
    /\ out_chans = OutChans(inputcount, outputcount, "separate")
    /\ sampleframes = 0
    /\ pc = "idle"
    /\ path = "none"
    /\ i = 0
    /\ chan = 0
    /\ in_samps = 0
    /\ out_samps = 0
    /\ insamp = 0
    /\ ins = [c \in Chans(inputcount) |-> 0]
    /\ out = [c \in {0} |-> 0]
    /\ snap = mem
    /\ log = <<>>
    /\ prev = mem
    /\ replay = FALSE

\* The host calls perform(self, dsp64, in_chans, numins, out_chans, numouts,
\* sampleframes, flags, userparam) on the specialization p.
Enter(p, F, inch, outch, m, rep) ==
    /\ pc = "idle"
    /\ path' = p
    /\ sampleframes' = F
    /\ in_chans' = inch
    /\ out_chans' = outch
    /\ mem' = m
    /\ snap' = m
    /\ prev' = IF rep THEN mem ELSE m
    /\ replay' = rep
    /\ log' = <<>>
    /\ i' = 0
    /\ pc' = IF p = "fast" THEN "f_loop" ELSE "loop"
    /\ IF p = "fast"
       THEN in_samps' = inch[0] /\ out_samps' = outch[0]
       ELSE UNCHANGED << in_samps, out_samps >>
    /\ UNCHANGED << unitVars, chan, insamp, ins, out >>

\* The arrays a call with these channel vectors can touch.
Passed(inch, outch) ==
    {inch[c] : c \in DOMAIN inch} \cup {outch[c] : c \in DOMAIN outch}

\* A block the host has just filled: passed buffer a holds the ramp
\* g[a]*(j+1); an array that is not passed to the call is silent.
Block(g) ==
    [a \in DOMAIN mem |->
        [j \in Frames |-> IF a \in DOMAIN g THEN Signal(g[a], j) ELSE 0]]

\* The same block again: the input buffers hold what they held at the
\* previous call, every other buffer holds what that call left in it.
SameBlock ==
    [a \in DOMAIN mem |->
        IF \E c \in DOMAIN in_chans : in_chans[c] = a THEN snap[a] ELSE mem[a]]

\* min_performer<T, enable_if<is_base_of<sample_operator<1,1>, T>>>::perform
PerformFast ==
    /\ FastEnabled(inputcount, outputcount)
    /\ \E F \in 0 .. MaxFrames, lay \in Layouts :
          LET inch == InChans(inputcount, outputcount, lay)
              outch == OutChans(inputcount, outputcount, lay)
          IN  \E g \in [Passed(inch, outch) -> Gains] :
                  Enter("fast", F, inch, outch, Block(g), FALSE)

\* min_performer<T, enable_if<is_base_of<sample_operator_base, T>
\*                            && !is_base_of<sample_operator<1,1>, T>>>::perform
PerformGeneric ==
    /\ GenericEnabled(inputcount, outputcount)
    /\ \E F \in 0 .. MaxFrames, lay \in Layouts :
          LET inch == InChans(inputcount, outputcount, lay)
              outch == OutChans(inputcount, outputcount, lay)
          IN  \E g \in [Passed(inch, outch) -> Gains] :
                  Enter("generic", F, inch, outch, Block(g), FALSE)

\* The host runs the next block through the same instance, and the block is
\* identical to the previous one.
PerformAgain ==
    /\ path # "none"
    /\ Enter(path, sampleframes, in_chans, out_chans, SameBlock, TRUE)

\* ---- the 1x1 specialization, lines 61-65
FastLoop ==
    /\ pc = "f_loop"
    /\ pc' = IF FrameLoopCond(i, sampleframes) THEN "f_read" ELSE "done"
    /\ UNCHANGED << unitVars, callVars, mem, i, chan, in_samps, out_samps,
                    insamp, ins, out, log >>

\* auto in = in_samps[i];
FastRead ==
    /\ pc = "f_read"
    /\ insamp' = mem[in_samps][i]
    /\ log' = Append(log, Event("read", 0, i, "-"))
    /\ pc' = "f_calc"
    /\ UNCHANGED << unitVars, callVars, mem, i, chan, in_samps, out_samps,
                    ins, out >>

\* auto out = self->obj.calculate(in);
FastCalc ==
    /\ pc = "f_calc"
    /\ out' = calculate(kind, shape, outputcount, <<insamp>>)
    /\ log' = Append(log, Event("call", 0, i, "-"))
    /\ pc' = "f_write"
    /\ UNCHANGED << unitVars, callVars, mem, i, chan, in_samps, out_samps,
                    insamp, ins >>

FastWrite_CopyInput ==
    /\ pc = "f_write"
    /\ mem' = [mem EXCEPT ![out_samps][i] = insamp]
    /\ log' = Append(log, Event("write", 0, i, "direct"))
    /\ i' = i + 1
    /\ pc' = "f_loop"
    /\ UNCHANGED << unitVars, callVars, chan, in_samps, out_samps, insamp,
                    ins, out >>

\* out_samps[i] = out; ++i
FastWrite ==
    /\ pc = "f_write"
    /\ mem' = [mem EXCEPT ![out_samps][i] = out[0]]
    /\ log' = Append(log, Event("write", 0, i, "direct"))
    /\ i' = i + 1
    /\ pc' = "f_loop"
    /\ UNCHANGED << unitVars, callVars, chan, in_samps, out_samps, insamp,
                    ins, out >>

\* ---- the generic specialization, lines 142-151
\* i < sampleframes; callable_samples<T, T::inputcount()> ins(self); chan = 0
Loop ==
    /\ pc = "loop"
    /\ IF FrameLoopCond(i, sampleframes)
       THEN /\ ins' \in [Chans(inputcount) -> Indeterminate]
            /\ chan' = 0
            /\ pc' = "gather"
       ELSE /\ pc' = "done"
            /\ UNCHANGED << ins, chan >>
    /\ UNCHANGED << unitVars, callVars, mem, i, in_samps, out_samps, insamp,
                    out, log >>

Gather_Descending ==
    /\ pc = "gather"
    /\ IF chan < inputcount
       THEN /\ ins' = set(ins, inputcount - 1 - chan,
                          mem[in_chans[inputcount - 1 - chan]][i])
            /\ log' = Append(log, Event("read", inputcount - 1 - chan, i, "-"))
            /\ chan' = chan + 1
            /\ pc' = "gather"
       ELSE /\ pc' = "call"
            /\ UNCHANGED << ins, log, chan >>
    /\ UNCHANGED << unitVars, callVars, mem, i, in_samps, out_samps, insamp,
                    out >>

\* for (chan = 0; chan < inputcount(); ++chan) ins.set(chan, in_chans[chan][i]);
Gather ==
    /\ pc = "gather"
    /\ IF chan < inputcount
       THEN /\ ins' = set(ins, chan, mem[in_chans[chan]][i])
            /\ log' = Append(log, Event("read", chan, i, "-"))
            /\ chan' = chan + 1
            /\ pc' = "gather"
       ELSE /\ pc' = "call"
            /\ UNCHANGED << ins, log, chan >>
    /\ UNCHANGED << unitVars, callVars, mem, i, in_samps, out_samps, insamp,
                    out >>

\* auto out = ins.call();
Call ==
    /\ pc = "call"
    /\ out' = call(kind, shape, outputcount, ins, inputcount)
    /\ log' = Append(log, Event("call", 0, i, "-"))
    /\ chan' = 0
    /\ pc' = "scatter"
    /\ UNCHANGED << unitVars, callVars, mem, i, in_samps, out_samps, insamp,
                    ins >>

\* perform_copy_output(self, i, out_chans, out), scalar overload, then ++i
ScatterScalar ==
    /\ pc = "scatter"
    /\ Overload(shape) = "scalar"
    /\ mem' = [mem EXCEPT ![out_chans[0]][i] = out[0]]
    /\ log' = Append(log, Event("write", 0, i, "scalar"))
    /\ i' = i + 1
    /\ pc' = "loop"
    /\ UNCHANGED << unitVars, callVars, chan, in_samps, out_samps, insamp,
                    ins, out >>

ScatterSequence_Accumulate ==
    /\ pc = "scatter"
    /\ Overload(shape) = "sequence"
    /\ IF chan < outputcount
       THEN /\ mem' = [mem EXCEPT ![out_chans[chan]][i] = @ + out[chan]]
            /\ log' = Append(log, Event("write", chan, i, "sequence"))
            /\ chan' = chan + 1
            /\ UNCHANGED << i, pc >>
       ELSE /\ i' = i + 1
            /\ pc' = "loop"
            /\ UNCHANGED << mem, log, chan >>
    /\ UNCHANGED << unitVars, callVars, in_samps, out_samps, insamp, ins, out >>

ScatterSequence_SwapSlots ==
    /\ pc = "scatter"
    /\ Overload(shape) = "sequence"
    /\ IF chan < outputcount
       THEN /\ mem' = [mem EXCEPT ![out_chans[chan]][i] = out[outputcount - 1 - chan]]
            /\ log' = Append(log, Event("write", chan, i, "sequence"))
            /\ chan' = chan + 1
            /\ UNCHANGED << i, pc >>
       ELSE /\ i' = i + 1
            /\ pc' = "loop"
            /\ UNCHANGED << mem, log, chan >>
    /\ UNCHANGED << unitVars, callVars, in_samps, out_samps, insamp, ins, out >>

ScatterSequence_SkipFrame ==
    /\ pc = "scatter"
    /\ Overload(shape) = "sequence"
    /\ IF chan < outputcount
       THEN /\ mem' = [mem EXCEPT ![out_chans[chan]][i] = out[chan]]
            /\ log' = Append(log, Event("write", chan, i, "sequence"))
            /\ chan' = chan + 1
            /\ UNCHANGED << i, pc >>
       ELSE /\ i' = i + 2
            /\ pc' = "loop"
            /\ UNCHANGED << mem, log, chan >>
    /\ UNCHANGED << unitVars, callVars, in_samps, out_samps, insamp, ins, out >>

ScatterSequence_DropLast ==
    /\ pc = "scatter"
    /\ Overload(shape) = "sequence"
    /\ IF chan < outputcount - 1
       THEN /\ mem' = [mem EXCEPT ![out_chans[chan]][i] = out[chan]]
            /\ log' = Append(log, Event("write", chan, i, "sequence"))
            /\ chan' = chan + 1
            /\ UNCHANGED << i, pc >>
       ELSE /\ i' = i + 1
            /\ pc' = "loop"
            /\ UNCHANGED << mem, log, chan >>
    /\ UNCHANGED << unitVars, callVars, in_samps, out_samps, insamp, ins, out >>

ScatterSequence_MirrorFrame ==
    /\ pc = "scatter"
    /\ Overload(shape) = "sequence"
    /\ IF chan < outputcount
       THEN /\ mem' = [mem EXCEPT ![out_chans[chan]][sampleframes - 1 - i] = out[chan]]
            /\ log' = Append(log, Event("write", chan, i, "sequence"))
            /\ chan' = chan + 1
            /\ UNCHANGED << i, pc >>
       ELSE /\ i' = i + 1
            /\ pc' = "loop"
            /\ UNCHANGED << mem, log, chan >>
    /\ UNCHANGED << unitVars, callVars, in_samps, out_samps, insamp, ins, out >>

\* perform_copy_output(self, i, out_chans, out), sequence overload, then ++i
ScatterSequence ==
    /\ pc = "scatter"
    /\ Overload(shape) = "sequence"
    /\ IF chan < outputcount
       THEN /\ mem' = [mem EXCEPT ![out_chans[chan]][i] = out[chan]]
            /\ log' = Append(log, Event("write", chan, i, "sequence"))
            /\ chan' = chan + 1
            /\ UNCHANGED << i, pc >>
       ELSE /\ i' = i + 1
            /\ pc' = "loop"
            /\ UNCHANGED << mem, log, chan >>
    /\ UNCHANGED << unitVars, callVars, in_samps, out_samps, insamp, ins, out >>

\* perform() returns to the host; its automatic variables end with it
Return ==
    /\ pc = "done"
    /\ pc' = "idle"
    /\ i' = 0
    /\ chan' = 0
    /\ in_samps' = 0
    /\ out_samps' = 0
    /\ insamp' = 0
    /\ ins' = [c \in Chans(inputcount) |-> 0]
    /\ out' = [c \in {0} |-> 0]
    /\ UNCHANGED << unitVars, callVars, mem, log >>

Step ==
    \/ FastLoop \/ FastRead \/ FastCalc \/ FastWrite
    \/ Loop \/ Gather \/ Call \/ ScatterScalar \/ ScatterSequence
    \/ Return

Next == PerformFast \/ PerformGeneric \/ PerformAgain \/ Step

Spec == Init /\ [][Next]_vars

\* perform() runs on the calling thread without suspension: once entered,
\* its next statement is always taken.
FairSpec == Spec /\ WF_vars(Step)

\* ------------------------------------------------------------ properties
Running == pc # "idle"
Done == pc = "done"

\* The samples of frame j as the host supplied them, in channel order.
OriginalInputs(j) == [p \in 1 .. inputcount |-> snap[in_chans[p - 1]][j]]

\* What calculate() returns for the original samples of frame j.
Expected(j) == calculate(kind, shape, outputcount, OriginalInputs(j))

OutputsAsExpected ==
    \A c \in DOMAIN out_chans : \A j \in 0 .. (sampleframes - 1) :
        mem[out_chans[c]][j] = Expected(j)[c]

Separate == out_chans = OutChans(inputcount, outputcount, "separate")

Aliased ==
    \E c \in DOMAIN out_chans : \E d \in DOMAIN in_chans :
        out_chans[c] = in_chans[d]

Count(op, c, j) ==
    Cardinality({k \in 1 .. Len(log) :
        log[k].op = op /\ log[k].chan = c /\ log[k].frame = j})

CountOp(op) == Cardinality({k \in 1 .. Len(log) : log[k].op = op})

\* C1: a (1,1) unit: when perform returns, output[0][j] = f(input[0][j])
\* for every frame j of the block.
C1_OneToOne ==
    (Done /\ inputcount = 1 /\ outputcount = 1) =>
        \A j \in 0 .. (sampleframes - 1) :
            mem[out_chans[0]][j] =
                calculate(kind, "scalar", 1, <<snap[in_chans[0]][j]>>)[0]

C1_Witness ==
    /\ Done /\ path = "fast" /\ kind = "asym" /\ Separate
    /\ sampleframes = 2
    /\ snap[in_chans[0]] = [j \in Frames |-> Signal(1, j)]
    /\ mem[out_chans[0]][0] = 2 /\ mem[out_chans[0]][1] = 4

\* C2: a (K,1) unit, K > 1: output[0][j] = f(input[0][j], ..., input[K-1][j])
\* with argument position c holding channel c's sample of frame j.
C2_ManyToOne ==
    (Done /\ inputcount > 1 /\ outputcount = 1) =>
        \A j \in 0 .. (sampleframes - 1) :
            mem[out_chans[0]][j] =
                WeightedSum(kind, [p \in 1 .. inputcount |->
                                      snap[in_chans[p - 1]][j]], inputcount)

C2_Witness ==
    /\ Done /\ inputcount = 2 /\ outputcount = 1 /\ kind = "asym" /\ Separate
    /\ sampleframes = 2
    /\ snap[in_chans[0]][0] = 1 /\ snap[in_chans[1]][0] = 10
    /\ mem[out_chans[0]][0] = 2 * 1 - 3 * 10
    /\ mem[out_chans[0]][1] = 2 * 2 - 3 * 20

\* C3: a (K,M) unit, K,M > 1: slot c of the value returned for frame j is in
\* output channel c at frame j, and no other sample changed.
C3_ManyToMany ==
    (Done /\ inputcount > 1 /\ outputcount > 1) =>
        /\ \A c \in Chans(outputcount) : \A j \in 0 .. (sampleframes - 1) :
              mem[out_chans[c]][j] = Expected(j)[c]
        /\ \A a \in DOMAIN mem : \A j \in Frames :
              (~ \E c \in Chans(outputcount) :
                    out_chans[c] = a /\ j < sampleframes)
                => mem[a][j] = snap[a][j]

C3_Witness ==
    /\ Done /\ inputcount = 2 /\ outputcount = 2 /\ kind = "asym" /\ Separate
    /\ sampleframes = 1
    /\ snap[in_chans[0]][0] = 10 /\ snap[in_chans[1]][0] = 1
    /\ mem[out_chans[0]][0] = 17 /\ mem[out_chans[1]][0] = 117
    /\ mem[out_chans[0]][1] = snap[out_chans[0]][1]

\* C4: with sampleframes = 0, perform reads and writes no sample, never
\* calls calculate, and leaves every buffer as it was.
C4_ZeroFrames ==
    (Running /\ sampleframes = 0) => (log = <<>> /\ mem = snap)

C4_Witness ==
    Done /\ sampleframes = 0 /\ path = "generic" /\ outputcount = 2
        /\ inputcount = 2

\* C5: the same block run twice in a row through the same instance gives
\* the same output block the second time.
C5_SameBlockSameOutput ==
    (Done /\ replay) =>
        \A c \in DOMAIN out_chans : \A j \in 0 .. (sampleframes - 1) :
            mem[out_chans[c]][j] = prev[out_chans[c]][j]

C5_Witness ==
    /\ Done /\ replay /\ sampleframes = 2
    /\ inputcount = 1 /\ outputcount = 2
    /\ out_chans[0] = in_chans[0]
    /\ mem[out_chans[0]][0] # snap[out_chans[0]][0]
    /\ mem[out_chans[1]][1] = snap[out_chans[1]][1]

\* The order of sample accesses the source's loops prescribe for frame j.
FrameOrder(j) ==
    [c \in 1 .. inputcount |-> <<"read", c - 1, j>>]
        \o << <<"call", 0, j>> >>
        \o [c \in 1 .. (IF Overload(shape) = "scalar" THEN 1 ELSE outputcount)
                |-> <<"write", c - 1, j>>]

RECURSIVE BlockOrder(_)
BlockOrder(n) == IF n = 0 THEN <<>> ELSE BlockOrder(n - 1) \o FrameOrder(n - 1)

\* C6: frames are processed in ascending order, and within a frame the
\* inputs are read in ascending channel order, then calculate is called,
\* then the outputs are written in ascending channel order.
C6_AscendingOrder ==
    Running =>
        LET want == BlockOrder(sampleframes)
        IN  /\ Len(log) <= Len(want)
            /\ \A k \in 1 .. Len(log) :
                  <<log[k].op, log[k].chan, log[k].frame>> = want[k]
            /\ Done => Len(log) = Len(want)

C6_Witness ==
    /\ Done /\ inputcount = 2 /\ outputcount = 2 /\ sampleframes = 2
    /\ Len(log) = 10
    /\ log[2].op = "read" /\ log[2].chan = 1 /\ log[2].frame = 0
    /\ log[5].op = "write" /\ log[5].chan = 1 /\ log[5].frame = 0
    /\ log[6].op = "read" /\ log[6].chan = 0 /\ log[6].frame = 1

\* C7: for every descriptor exactly one specialization is selected: the 1x1
\* one exactly when the descriptor is (1,1), the generic one otherwise.
C7_ExactlyOnePerformer ==
    /\ FastEnabled(inputcount, outputcount)
          # GenericEnabled(inputcount, outputcount)
    /\ path # "none" =>
          /\ path \in {"fast", "generic"}
          /\ path = "fast" <=> (inputcount = 1 /\ outputcount = 1)

C7_Witness ==
    Done /\ path = "generic" /\ inputcount = 1 /\ outputcount = 2
        /\ sampleframes = 1

\* C8: perform returns, and when it does calculate has been called exactly
\* once for each frame of the block and sampleframes times in all.
C8_WholeBlockOnce ==
    /\ [](Done =>
            /\ \A j \in 0 .. (sampleframes - 1) : Count("call", 0, j) = 1
            /\ CountOp("call") = sampleframes)
    /\ (Running ~> Done)

C8_Witness ==
    /\ Done /\ sampleframes = 2 /\ CountOp("call") = 2
    /\ path = "generic" /\ inputcount = 0 /\ outputcount = 2

Unread(d, j) ==
    \/ j > i
    \/ j = i /\ pc \in {"loop", "f_loop", "f_read"}
    \/ j = i /\ pc = "gather" /\ d >= chan

\* C10: when output channels share arrays with input channels, every input
\* sample still holds the host's value until it is read, so the outputs are
\* those of the original inputs.
C10_InPlaceSafe ==
    (Running /\ Aliased) =>
        /\ \A d \in DOMAIN in_chans : \A j \in Frames :
              Unread(d, j) => mem[in_chans[d]][j] = snap[in_chans[d]][j]
        /\ Done => OutputsAsExpected

C10_Witness ==
    /\ Done /\ inputcount = 2 /\ outputcount = 2 /\ sampleframes = 2
    /\ out_chans[1] = in_chans[0] /\ out_chans[0] = in_chans[1]
    /\ mem[in_chans[0]] # snap[in_chans[0]]
    /\ kind = "asym"

====
